---- MODULE Spec2Model ----
(***************************************************************************)
(* A model of backend/main.py: the /aggregate handler (aggregate_content), *)
(* the two source fetchers (aggregate_web_content,                         *)
(* aggregate_twitter_content), the summarizer (generate_summary) and the   *)
(* start-up routine (initialize_services).                                 *)
(*                                                                         *)
(* The providers (the DuckDuckGo endpoint, the Twitter API, the language   *)
(* model) are the environment: what they answer is drawn from small sets.  *)
(* A datetime is modelled as a pair (ts, aware): its position on the time  *)
(* line and whether it carries a time zone.  datetime.now() is naive; the  *)
(* created_at of a tweet is time-zone aware.                               *)
(***************************************************************************)
EXTENDS Integers, Sequences, FiniteSets

(***************************************************************************)
(* Bounds of the model.                                                    *)
(***************************************************************************)
\* Request slots of the process (requests that may ever arrive).
MaxReqs == 2
\* Largest max_results a request asks for.
MaxResults == 2
\* Most related topics in one answer of the web provider.
MaxTopics == 2
\* Most tweets in one answer of the social provider.
MaxTweets == 2
\* Last tick of the local clock read by datetime.now().
MaxClock == 1
\* Last tick of the time line of provider-supplied created_at values.
MaxTweetTime == 1

\* Most items of one web answer in the summarizer's specification.
MaxSummaryItems == 12

\* min(max_results, 100): the Twitter API limit.
TwitterApiLimit == 100
\* items[:10]: the summarizer's prefix.
SummaryLimit == 10

Reqs == 1..MaxReqs
\* Tags a request may name: the two the handler knows and one it does not.
Sources == {"web", "twitter", "rss"}
\* Query texts.  The code never branches on the text of a query.
Queries == {"q", "p"}
None == "None"

Min(a, b) == IF a <= b THEN a ELSE b

RECURSIVE Reverse(_)
Reverse(s) == IF s = <<>> THEN <<>> ELSE Append(Reverse(Tail(s)), Head(s))

\* s[:n] of Python for n >= 0.
Take(s, n) == SubSeq(s, 1, Min(n, Len(s)))

(***************************************************************************)
(* The providers' answers.                                                 *)
(***************************************************************************)
\* One entry of RelatedTopics: "text" is a dict with a string "Text";
\* "group" is an entry the loop skips (not a dict, or without "Text");
\* "bad" has "Text" but makes the ContentItem construction raise (a "Text"
\* that is no string, a null "FirstURL").
TopicKinds == {"text", "group", "bad"}

TopicSeqs == UNION {[1..n -> TopicKinds] : n \in 0..MaxTopics}

\* "Abstract": absent or empty, a string, or a truthy value that is no string.
AbstractKinds == {"none", "text", "bad"}

\* The web provider's answer: the GET raises (network error, timeout), the
\* status is not 200, the body does not parse into a dict, or a payload.
WebResponses ==
    {[kind |-> k, topics |-> <<>>, abstract |-> "none"] :
        k \in {"error", "status", "badjson"}}
    \cup {[kind |-> "ok", topics |-> t, abstract |-> a] :
            t \in TopicSeqs, a \in AbstractKinds}

\* One tweet: created_at missing, created_at at a time of the provider, or
\* a tweet whose fields make the ContentItem construction raise.
Tweets ==
    {[c |-> "none", t |-> 0], [c |-> "bad", t |-> 0]}
    \cup {[c |-> "at", t |-> t] : t \in 0..MaxTweetTime}

TweetSeqs == UNION {[1..n -> Tweets] : n \in 0..MaxTweets}

\* The social provider's answer: the call raises, or tweets.data (empty: None).
TwitterResponses ==
    {[kind |-> "error", tweets |-> <<>>]}
    \cup {[kind |-> "ok", tweets |-> t] : t \in TweetSeqs}

\* The provider returns no more tweets than the max_results it was asked for.
ProviderHonours(resp, asked) == Len(resp.tweets) <= asked

\* The values successive datetime.now() calls return from tick c on.
NowSeqs(c, n) ==
    {s \in [1..n -> c..MaxClock] : \A i \in 1..n : \A j \in i..n : s[i] <= s[j]}

(***************************************************************************)
(* ContentItem.  n is the item's position among the items its fetcher      *)
(* created in this call.                                                   *)
(***************************************************************************)
ContentItem(source, query, kind, n, ts, aware) ==
    [source |-> source, query |-> query, kind |-> kind, n |-> n,
     ts |-> ts, aware |-> aware]

(***************************************************************************)
(* aggregate_web_content, after the GET has returned.                      *)
(***************************************************************************)
\* The for loop over the sliced topics: the kinds of the items appended, and
\* whether an exception left the loop.
RECURSIVE WebTopicLoop(_, _)
WebTopicLoop(topics, acc) ==
    IF topics = <<>> THEN [kinds |-> acc, raised |-> FALSE]
    ELSE IF Head(topics) = "text" THEN WebTopicLoop(Tail(topics), Append(acc, "topic"))
    ELSE IF Head(topics) = "group" THEN WebTopicLoop(Tail(topics), acc)
    ELSE [kinds |-> acc, raised |-> TRUE]

WebSlice(topics, max_results) == Take(topics, max_results)

\* The abstract, appended after the loop.
WebAbstract(loop, abstract) ==
    IF loop.raised \/ abstract = "none" THEN loop
    ELSE IF abstract = "text"
         THEN [kinds |-> Append(loop.kinds, "abstract"), raised |-> FALSE]
         ELSE [kinds |-> loop.kinds, raised |-> TRUE]

\* The body of the try block.
WebYield(resp, max_results) ==
    IF resp.kind \in {"error", "badjson"} THEN [kinds |-> <<>>, raised |-> TRUE]
    ELSE IF resp.kind = "status" THEN [kinds |-> <<>>, raised |-> FALSE]
    ELSE WebAbstract(WebTopicLoop(WebSlice(resp.topics, max_results), <<>>),
                     resp.abstract)

\* What the fetcher returns: the items list as it stands when the try block
\* ends or the except clause has logged the error.
WebItems(y, query, stamps) ==
    [i \in 1..Len(y.kinds) |->
        ContentItem("web", query, y.kinds[i], i, stamps[i], FALSE)]

(***************************************************************************)
(* aggregate_twitter_content.                                              *)
(***************************************************************************)
\* max_results=min(max_results, 100), the argument of search_recent_tweets.
TwitterMaxResults(max_results) == Min(max_results, TwitterApiLimit)

\* The for loop over tweets.data: the tweets turned into items, and whether
\* an exception left the loop.
RECURSIVE TwitterLoop(_, _)
TwitterLoop(tweets, acc) ==
    IF tweets = <<>> THEN [tweets |-> acc, raised |-> FALSE]
    ELSE IF Head(tweets).c = "bad" THEN [tweets |-> acc, raised |-> TRUE]
    ELSE TwitterLoop(Tail(tweets), Append(acc, Head(tweets)))

TwitterYield(client, resp) ==
    IF ~client THEN [tweets |-> <<>>, raised |-> FALSE]
    ELSE IF resp.kind = "error" THEN [tweets |-> <<>>, raised |-> TRUE]
    ELSE TwitterLoop(resp.tweets, <<>>)

\* timestamp=tweet.created_at or datetime.now()
TwitterItems(y, query, stamps) ==
    [i \in 1..Len(y.tweets) |->
        IF y.tweets[i].c = "at"
        THEN ContentItem("twitter", query, "tweet", i, y.tweets[i].t, TRUE)
        ELSE ContentItem("twitter", query, "tweet", i, stamps[i], FALSE)]

(***************************************************************************)
(* list.sort(key=lambda x: x.timestamp, reverse=True).  CPython reverses   *)
(* the list, sorts it stably in ascending key order and reverses it again. *)
(***************************************************************************)
\* x goes behind every element whose key is not greater than its own.
RECURSIVE InsertAsc(_, _)
InsertAsc(s, x) ==
    IF s = <<>> THEN <<x>>
    ELSE IF x.ts < Head(s).ts THEN <<x>> \o s
    ELSE <<Head(s)>> \o InsertAsc(Tail(s), x)

RECURSIVE SortAsc(_)
SortAsc(s) ==
    IF s = <<>> THEN <<>>
    ELSE InsertAsc(SortAsc(SubSeq(s, 1, Len(s) - 1)), s[Len(s)])

\* Mutant: reverse=True forgotten.
SortOldestFirst(s) == SortAsc(s)

\* Mutant: an ascending sort reversed afterwards, which turns ties around.
SortThenReverse(s) == Reverse(SortAsc(s))

SortNewestFirst(s) == Reverse(SortAsc(Reverse(s)))

\* Comparing a naive datetime with an aware one raises TypeError, and a sort
\* of a list that holds both compares such a pair.
SortRaises(s) == \E i \in 1..Len(s) : \E j \in 1..Len(s) : s[i].aware # s[j].aware

(***************************************************************************)
(* The state.                                                              *)
(***************************************************************************)
VARIABLES
    twitter_client,  \* the module global: TRUE when a client was built
    openai_client,   \* the module global: TRUE when a client was built
    started,         \* initialize_services has run
    clock,           \* the tick datetime.now() reads
    blocked,         \* the request whose synchronous Twitter call holds the event loop, or 0
    slots,           \* the request slots open in this run
    request,         \* per slot: the AggregationRequest, or NoRequest
    pc,              \* per slot: where the handler stands
    sources_used,    \* per slot: the handler's local list
    tasks,           \* per slot: the two fetch tasks the handler gave to gather
    all_items,       \* per slot: the handler's local list
    response,        \* per slot: what the client received
    calls,           \* per slot: how often each collaborator was invoked
    prompt,          \* per slot: the items generate_summary put into its prompt
    body             \* per slot: the JSON body the client posted

vars == <<twitter_client, openai_client, started, clock, blocked, slots, request,
          pc, sources_used, tasks, all_items, response, calls, prompt, body>>

\* AggregationRequest, with a query present (validation has passed).
Requests ==
    [query : Queries, sources : SUBSET Sources, max_results : 1..MaxResults,
     summarize : BOOLEAN]

\* The fields of AggregationRequest and the defaults of the optional ones.
Fields == {"query", "sources", "max_results", "summarize"}
DefaultSources == {"web", "twitter"}
DefaultMaxResults == 10
DefaultSummarize == TRUE

\* A JSON body posted to /aggregate: given names the fields it holds; a field
\* it does not hold has a fixed filler here (None, {}, 0, FALSE).
Bodies(queries) ==
    {b \in [given : SUBSET Fields, query : queries \cup {None},
            sources : SUBSET Sources, max_results : 0..MaxResults,
            summarize : BOOLEAN] :
        /\ ("query" \in b.given) <=> (b.query # None)
        /\ ("sources" \notin b.given) => (b.sources = {})
        /\ ("max_results" \in b.given) <=> (b.max_results >= 1)
        /\ ("summarize" \notin b.given) => (b.summarize = FALSE)}

\* The bodies that supply every optional field.
ExplicitBodies(queries) ==
    {b \in Bodies(queries) : Fields \ {"query"} \subseteq b.given}

\* Mutant: query is optional.
ValidAlways(b) == TRUE

\* query: str = Field(...): the one required field.
Valid(b) == "query" \in b.given

\* Mutant: max_results is always the default.
AggregationRequestDefaulted(b) ==
    [query |-> b.query,
     sources |-> IF "sources" \in b.given THEN b.sources ELSE DefaultSources,
     max_results |-> DefaultMaxResults,
     summarize |-> IF "summarize" \in b.given THEN b.summarize ELSE DefaultSummarize]

\* AggregationRequest(**body): a supplied field keeps its value, a missing
\* optional field gets its default.
AggregationRequest(b) ==
    [query |-> b.query,
     sources |-> IF "sources" \in b.given THEN b.sources ELSE DefaultSources,
     max_results |-> IF "max_results" \in b.given THEN b.max_results
                     ELSE DefaultMaxResults,
     summarize |-> IF "summarize" \in b.given THEN b.summarize ELSE DefaultSummarize]

\* The 422 answer of the validation layer.
ValidationError == [status |-> 422]

\* A task of gather: not created, created, suspended in the GET ("waiting"),
\* inside the synchronous search_recent_tweets ("blocking"), or settled with
\* the list the fetcher returned; logged records the except clause's log line.
NoTask == [state |-> "none", items |-> <<>>, logged |-> FALSE]
NewTask == [state |-> "ready", items |-> <<>>, logged |-> FALSE]
\* Mutant: a fetcher that logged an error is scheduled again.
RetryTask(items, logged) ==
    [state |-> IF logged THEN "ready" ELSE "done", items |-> items, logged |-> logged]

DoneTask(items, logged) == [state |-> "done", items |-> items, logged |-> logged]

\* errors counts the log lines of generate_summary's except clause.
NoCalls == [web |-> 0, twitter |-> 0, summarizer |-> 0, llm |-> 0, errors |-> 0]
NoResponse == [status |-> 0]

\* raise HTTPException(status_code=500, detail=str(e))
HTTPException == [status |-> 500]

\* Mutant: total_items counts the result lists of gather, not the items.
AggregationResultCountsLists(query, items, summary, su) ==
    [status |-> 200, query |-> query, items |-> items, summary |-> summary,
     total_items |-> Len(su), sources_used |-> su]

\* AggregationResult(...), answered with status 200.
AggregationResult(query, items, summary, su) ==
    [status |-> 200, query |-> query, items |-> items, summary |-> summary,
     total_items |-> Len(items), sources_used |-> su]

\* No body was posted.
NoBody == [given |-> {}]

\* No request object was built for the slot.
NoRequest == [query |-> None]

Init ==
    /\ twitter_client = FALSE
    /\ openai_client = FALSE
    /\ started = FALSE
    /\ clock = 0
    /\ blocked = 0
    /\ slots = {1}
    /\ request = [r \in Reqs |-> NoRequest]
    /\ pc = [r \in Reqs |-> "idle"]
    /\ sources_used = [r \in Reqs |-> <<>>]
    /\ tasks = [r \in Reqs |-> [web |-> NoTask, twitter |-> NoTask]]
    /\ all_items = [r \in Reqs |-> <<>>]
    /\ response = [r \in Reqs |-> NoResponse]
    /\ calls = [r \in Reqs |-> NoCalls]
    /\ prompt = [r \in Reqs |-> <<>>]
    /\ body = [r \in Reqs |-> NoBody]

(***************************************************************************)
(* initialize_services: one try block around both clients.                 *)
(***************************************************************************)
InitializeServices(token, tfail, key, kfail) ==
    /\ ~started
    /\ started' = TRUE
    /\ twitter_client' = (token /\ ~tfail)
    /\ openai_client' = IF token /\ tfail THEN FALSE ELSE (key /\ ~kfail)
    /\ UNCHANGED <<clock, blocked, slots, request, pc, sources_used, tasks,
                   all_items, response, calls, prompt, body>>

(***************************************************************************)
(* aggregate_content.                                                      *)
(***************************************************************************)
\* Which fetchers the handler gives to gather.
WebScheduled(req) == "web" \in req.sources
\* Mutant: the Twitter fetcher is scheduled without looking at the client.
TwitterScheduledAlways(req, client) == "twitter" \in req.sources

TwitterScheduled(req, client) == "twitter" \in req.sources /\ client

\* Mutant: every requested tag the handler knows is recorded, scheduled or not.
SourcesUsedRequested(req, client) ==
    (IF "web" \in req.sources THEN <<"web">> ELSE <<>>)
    \o (IF "twitter" \in req.sources THEN <<"twitter">> ELSE <<>>)

SourcesUsed(req, client) ==
    (IF WebScheduled(req) THEN <<"web">> ELSE <<>>)
    \o (IF TwitterScheduled(req, client) THEN <<"twitter">> ELSE <<>>)

\* Mutant: a race, the handler goes on when the first task has settled.
AllSettledFirst(t) == t.web.state = "done" \/ t.twitter.state = "done"

\* gather waits for every task it was given.
AllSettled(t) ==
    /\ t.web.state \in {"none", "done"}
    /\ t.twitter.state \in {"none", "done"}

\* The results of gather, in the order of the tasks, each a list.
GatherResults(t) ==
    (IF t.web.state = "done" THEN <<t.web.items>> ELSE <<>>)
    \o (IF t.twitter.state = "done" THEN <<t.twitter.items>> ELSE <<>>)

\* for result in results: all_items.extend(result)
RECURSIVE Extend(_, _)
\* Mutant: the task list is a module-level list that the handlers share.
SharedResults(t, r) == GatherResults(t[1])

\* results = await asyncio.gather(*tasks): tasks is a local of the handler.
OwnResults(t, r) == GatherResults(t[r])

Extend(acc, results) ==
    IF results = <<>> THEN acc ELSE Extend(acc \o Head(results), Tail(results))

\* Mutant: request.summarize is not looked at.
SummaryRequestedAlways(req, items) == items # <<>>

\* if request.summarize and all_items: the summarizer is invoked.
SummaryRequested(req, items) == req.summarize /\ items # <<>>

\* if not openai_client or not items: return None.  Otherwise generate_summary
\* goes on to the language-model call.
SummaryCallsModel(client, items) == client /\ items # <<>>

\* Mutant: neither guard looks at the items.
ModelCalledOnEmpty(req, items, client) == req.summarize /\ client

\* The language model is called when the handler invokes the summarizer and
\* the summarizer passes its own guard.
ModelCalled(req, items, client) ==
    SummaryRequested(req, items) /\ SummaryCallsModel(client, items)

\* Mutant: the prompt embeds every item.
PromptItemsAll(items) == items

\* for item in items[:10]: the items generate_summary embeds in its prompt.
PromptItems(items) == Take(items, SummaryLimit)

\* The handler from the sort to the response or to the language-model call.
AfterGather(r, req, merged, su) ==
    IF SortRaises(merged)
    THEN /\ all_items' = [all_items EXCEPT ![r] = merged]
         /\ response' = [response EXCEPT ![r] = HTTPException]
         /\ pc' = [pc EXCEPT ![r] = "done"]
         /\ calls' = calls
         /\ prompt' = prompt
    ELSE LET sorted == SortNewestFirst(merged) IN
         /\ all_items' = [all_items EXCEPT ![r] = sorted]
         /\ IF ModelCalled(req, sorted, openai_client)
            THEN /\ response' = response
                 /\ pc' = [pc EXCEPT ![r] = "summarizing"]
                 /\ calls' = [calls EXCEPT ![r].summarizer = @ + 1,
                                           ![r].llm = @ + 1]
                 /\ prompt' = [prompt EXCEPT ![r] = PromptItems(sorted)]
            ELSE /\ response' = [response EXCEPT ![r] =
                        AggregationResult(req.query, sorted, None, su)]
                 /\ pc' = [pc EXCEPT ![r] = "done"]
                 /\ calls' = IF SummaryRequested(req, sorted)
                             THEN [calls EXCEPT ![r].summarizer = @ + 1]
                             ELSE calls
                 /\ prompt' = prompt

\* A request with a valid body arrives: the handler runs to its first
\* suspension, the await of gather, or, with no task, to the response.
Accept(r, b) ==
    /\ started
    /\ blocked = 0
    /\ r \in slots
    /\ pc[r] = "idle"
    /\ Valid(b)
    /\ body' = [body EXCEPT ![r] = b]
    /\ LET req == AggregationRequest(b)
           su == SourcesUsed(req, twitter_client)
           t == [web |-> IF WebScheduled(req) THEN NewTask ELSE NoTask,
                 twitter |-> IF TwitterScheduled(req, twitter_client)
                             THEN NewTask ELSE NoTask]
       IN /\ request' = [request EXCEPT ![r] = req]
          /\ sources_used' = [sources_used EXCEPT ![r] = su]
          /\ IF su # <<>>
             THEN /\ tasks' = [tasks EXCEPT ![r] = t]
                  /\ pc' = [pc EXCEPT ![r] = "gathering"]
                  /\ UNCHANGED <<all_items, response, calls, prompt>>
             ELSE /\ tasks' = tasks
                  /\ AfterGather(r, req, <<>>, su)
    /\ UNCHANGED <<twitter_client, openai_client, started, clock, blocked, slots>>

\* A request whose body fails validation arrives: it is answered 422 and
\* aggregate_content is not called.
Reject(r, b) ==
    /\ started
    /\ blocked = 0
    /\ r \in slots
    /\ pc[r] = "idle"
    /\ ~Valid(b)
    /\ body' = [body EXCEPT ![r] = b]
    /\ response' = [response EXCEPT ![r] = ValidationError]
    /\ pc' = [pc EXCEPT ![r] = "rejected"]
    /\ UNCHANGED <<twitter_client, openai_client, started, clock, blocked, slots,
                   request, sources_used, tasks, all_items, calls, prompt>>

\* The web task runs to its suspension in client.get.
WebStart(r) ==
    /\ blocked = 0
    /\ tasks[r].web.state = "ready"
    /\ tasks' = [tasks EXCEPT ![r].web.state = "waiting"]
    /\ calls' = [calls EXCEPT ![r].web = @ + 1]
    /\ UNCHANGED <<twitter_client, openai_client, started, clock, blocked, slots,
                   request, pc, sources_used, all_items, response, prompt,
                   body>>

\* The GET settles and the web task runs to its return.
WebReturn(r) ==
    /\ blocked = 0
    /\ tasks[r].web.state = "waiting"
    /\ \E resp \in WebResponses :
         LET y == WebYield(resp, request[r].max_results) IN
         \E stamps \in NowSeqs(clock, Len(y.kinds)) :
            /\ tasks' = [tasks EXCEPT ![r].web =
                    DoneTask(WebItems(y, request[r].query, stamps), y.raised)]
            /\ clock' = IF stamps = <<>> THEN clock ELSE stamps[Len(stamps)]
    /\ UNCHANGED <<twitter_client, openai_client, started, blocked, slots,
                   request, pc, sources_used, all_items, response, calls, prompt,
                   body>>

\* The Twitter task runs into search_recent_tweets, a synchronous call: the
\* event loop runs nothing else until it returns.
TwitterCall(r) ==
    /\ blocked = 0
    /\ tasks[r].twitter.state = "ready"
    /\ calls' = [calls EXCEPT ![r].twitter = @ + 1]
    /\ IF twitter_client
       THEN /\ tasks' = [tasks EXCEPT ![r].twitter.state = "blocking"]
            /\ blocked' = r
       ELSE /\ tasks' = [tasks EXCEPT ![r].twitter = DoneTask(<<>>, FALSE)]
            /\ blocked' = blocked
    /\ UNCHANGED <<twitter_client, openai_client, started, clock, slots,
                   request, pc, sources_used, all_items, response, prompt,
                   body>>

\* search_recent_tweets returns or raises and the Twitter task runs to its
\* return.
TwitterReturn(r) ==
    /\ blocked = r
    /\ tasks[r].twitter.state = "blocking"
    /\ \E resp \in TwitterResponses :
         /\ ProviderHonours(resp, TwitterMaxResults(request[r].max_results))
         /\ LET y == TwitterYield(twitter_client, resp) IN
            \E stamps \in NowSeqs(clock, Len(y.tweets)) :
               /\ tasks' = [tasks EXCEPT ![r].twitter =
                       DoneTask(TwitterItems(y, request[r].query, stamps), y.raised)]
               /\ clock' = IF stamps = <<>> THEN clock ELSE stamps[Len(stamps)]
    /\ blocked' = 0
    /\ UNCHANGED <<twitter_client, openai_client, started, slots,
                   request, pc, sources_used, all_items, response, calls, prompt,
                   body>>

\* gather returns: merge, sort, then the summarizer or the response.
Join(r) ==
    /\ blocked = 0
    /\ pc[r] = "gathering"
    /\ AllSettled(tasks[r])
    /\ AfterGather(r, request[r], Extend(<<>>, OwnResults(tasks, r)),
                   sources_used[r])
    /\ UNCHANGED <<twitter_client, openai_client, started, clock, blocked, slots,
                   request, sources_used, tasks, body>>

\* What ainvoke does: it returns a message with its text ("text"), it raises
\* (a timeout, an API error: "error"), or it returns something that has no
\* content to read, so that response.content raises ("malformed").
ModelOutcomes == {"text", "error", "malformed"}

ModelFailed(outcome) == outcome # "text"

\* generate_summary's return value after the language-model call: the
\* except clause logs and returns None.
SummaryOf(outcome) == IF ModelFailed(outcome) THEN None ELSE "summary"

\* Mutant: generate_summary without its try block, the failure reaches the
\* handler's except clause.
SummaryResponsePropagates(outcome, query, items, su) ==
    IF ModelFailed(outcome) THEN HTTPException
    ELSE AggregationResult(query, items, "summary", su)

\* What the handler answers once generate_summary has returned.
SummaryResponse(outcome, query, items, su) ==
    AggregationResult(query, items, SummaryOf(outcome), su)

\* The language-model call settles: generate_summary returns and the handler
\* answers.
SummaryReturn(r, outcome) ==
    /\ blocked = 0
    /\ pc[r] = "summarizing"
    /\ response' = [response EXCEPT ![r] =
            SummaryResponse(outcome, request[r].query, all_items[r], sources_used[r])]
    /\ pc' = [pc EXCEPT ![r] = "done"]
    /\ calls' = IF ModelFailed(outcome)
                THEN [calls EXCEPT ![r].errors = @ + 1]
                ELSE calls
    /\ UNCHANGED <<twitter_client, openai_client, started, clock, blocked, slots,
                   request, sources_used, tasks, all_items, prompt, body>>

Next ==
    \/ \E token, tfail, key, kfail \in BOOLEAN :
            InitializeServices(token, tfail, key, kfail)
    \/ \E r \in Reqs : \E b \in ExplicitBodies({"q"}) : Accept(r, b)
    \/ \E r \in Reqs : \E b \in Bodies({"q"}) : Reject(r, b)
    \/ \E r \in Reqs : WebStart(r)
    \/ \E r \in Reqs : WebReturn(r)
    \/ \E r \in Reqs : TwitterCall(r)
    \/ \E r \in Reqs : TwitterReturn(r)
    \/ \E r \in Reqs : Join(r)
    \/ \E r \in Reqs : \E outcome \in ModelOutcomes : SummaryReturn(r, outcome)

Spec == Init /\ [][Next]_vars

(***************************************************************************)
(* The event loop runs every task that is ready, and every network call    *)
(* that was made settles: it returns or it raises.                         *)
(***************************************************************************)
\* What a step of a task changes: every action of a request changes one of
\* these, so a step that leaves them alone is a stuttering step.
progress == <<pc, tasks, blocked, calls, response>>

\* The guard of Join: ENABLED <<Join(r)>>_progress, written out.
JoinEnabled(r) == blocked = 0 /\ pc[r] = "gathering" /\ AllSettled(tasks[r])

\* WF_progress(Join(r)), with its ENABLED written out as JoinEnabled(r).
JoinFair(r) == []<>~JoinEnabled(r) \/ []<><<Join(r)>>_progress

Fairness ==
    \A r \in Reqs :
        /\ WF_progress(WebStart(r))
        /\ WF_progress(WebReturn(r))
        /\ WF_progress(TwitterCall(r))
        /\ WF_progress(TwitterReturn(r))
        /\ JoinFair(r)
        /\ WF_progress(\E outcome \in ModelOutcomes : SummaryReturn(r, outcome))

LiveSpec == Spec /\ Fairness

(***************************************************************************)
(* Several requests in flight: every slot is open, slot 1 asks for "q" and *)
(* every other slot for "p", each for one result of either source and a    *)
(* summary.                                                                *)
(***************************************************************************)
QueryOf(r) == IF r = 1 THEN "q" ELSE "p"

ConcurrentBodies(r) ==
    {b \in ExplicitBodies({QueryOf(r)}) :
        b.max_results = 1 /\ b.sources = {"web", "twitter"} /\ b.summarize}

ConcurrentInit ==
    /\ twitter_client = FALSE
    /\ openai_client = FALSE
    /\ started = FALSE
    /\ clock = 0
    /\ blocked = 0
    /\ slots = Reqs
    /\ request = [r \in Reqs |-> NoRequest]
    /\ pc = [r \in Reqs |-> "idle"]
    /\ sources_used = [r \in Reqs |-> <<>>]
    /\ tasks = [r \in Reqs |-> [web |-> NoTask, twitter |-> NoTask]]
    /\ all_items = [r \in Reqs |-> <<>>]
    /\ response = [r \in Reqs |-> NoResponse]
    /\ calls = [r \in Reqs |-> NoCalls]
    /\ prompt = [r \in Reqs |-> <<>>]
    /\ body = [r \in Reqs |-> NoBody]

\* A step of the handler of request r.
StepOf(r) ==
    \/ \E b \in ConcurrentBodies(r) : Accept(r, b)
    \/ WebStart(r)
    \/ WebReturn(r)
    \/ TwitterCall(r)
    \/ TwitterReturn(r)
    \/ Join(r)
    \/ \E outcome \in ModelOutcomes : SummaryReturn(r, outcome)

ConcurrentNext ==
    \/ \E token, tfail, key, kfail \in BOOLEAN :
            InitializeServices(token, tfail, key, kfail)
    \/ \E r \in Reqs : StepOf(r)

ConcurrentSpec == ConcurrentInit /\ [][ConcurrentNext]_vars

(***************************************************************************)
(* The service boundary alone: start-up, then bodies of every shape, with  *)
(* and without each field, up to the handler's first suspension.           *)
(***************************************************************************)
BoundaryNext ==
    \/ \E token, tfail, key, kfail \in BOOLEAN :
            InitializeServices(token, tfail, key, kfail)
    \/ \E r \in Reqs : \E b \in Bodies(Queries) : Accept(r, b)
    \/ \E r \in Reqs : \E b \in Bodies(Queries) : Reject(r, b)

BoundarySpec == Init /\ [][BoundaryNext]_vars

(***************************************************************************)
(* The summarizer on long lists: the handler stands at the await of gather *)
(* of a web-only request whose fetch has returned up to MaxSummaryItems    *)
(* related topics.                                                         *)
(***************************************************************************)
SummarizerInit ==
    /\ twitter_client = FALSE
    /\ openai_client \in BOOLEAN
    /\ started = TRUE
    /\ blocked = 0
    /\ slots = {1}
    /\ pc = [r \in Reqs |-> IF r = 1 THEN "gathering" ELSE "idle"]
    /\ sources_used = [r \in Reqs |-> IF r = 1 THEN <<"web">> ELSE <<>>]
    /\ all_items = [r \in Reqs |-> <<>>]
    /\ response = [r \in Reqs |-> NoResponse]
    /\ calls = [r \in Reqs |-> IF r = 1 THEN [NoCalls EXCEPT !.web = 1] ELSE NoCalls]
    /\ prompt = [r \in Reqs |-> <<>>]
    /\ \E k \in 0..MaxSummaryItems : \E stamps \in NowSeqs(0, k) :
         LET b == [given |-> Fields, query |-> "q", sources |-> {"web"},
                   max_results |-> MaxSummaryItems, summarize |-> TRUE]
             y == WebYield([kind |-> "ok", topics |-> [i \in 1..k |-> "text"],
                            abstract |-> "none"], b.max_results)
         IN /\ body = [r \in Reqs |-> IF r = 1 THEN b ELSE NoBody]
            /\ request = [r \in Reqs |-> IF r = 1 THEN AggregationRequest(b) ELSE NoRequest]
            /\ tasks = [r \in Reqs |->
                          IF r = 1
                          THEN [web |-> DoneTask(WebItems(y, b.query, stamps), y.raised),
                                twitter |-> NoTask]
                          ELSE [web |-> NoTask, twitter |-> NoTask]]
            /\ clock = IF k = 0 THEN 0 ELSE stamps[k]

SummarizerNext ==
    \/ \E r \in Reqs : Join(r)
    \/ \E r \in Reqs : \E outcome \in ModelOutcomes : SummaryReturn(r, outcome)

SummarizerSpec == SummarizerInit /\ [][SummarizerNext]_vars

(***************************************************************************)
(* The claims.                                                             *)
(***************************************************************************)
Range(s) == {s[i] : i \in 1..Len(s)}
Fetchers == {"web", "twitter"}
Answered(r) == response[r].status = 200
\* aggregate_content was called for the request of slot r.
Handled(r) == pc[r] \notin {"idle", "rejected"}

\* A provider tag the process can fetch from: the web fetcher always, the
\* Twitter fetcher when its client was built.
Available(s) == s = "web" \/ (s = "twitter" /\ twitter_client)

\* C1: the items of every result are ordered newest-first: each item's
\* timestamp is at least that of the item after it.
C1_ItemsNewestFirst ==
    \A r \in Reqs :
        Answered(r) =>
            \A i \in 1..(Len(response[r].items) - 1) :
                response[r].items[i].ts >= response[r].items[i + 1].ts

\* A result of two or more items that the sort had to reorder.
C1_Witness ==
    \E r \in Reqs :
        /\ Answered(r)
        /\ Len(response[r].items) >= 2
        /\ response[r].items # Extend(<<>>, GatherResults(tasks[r]))
        /\ response[r].items[1].ts > response[r].items[Len(response[r].items)].ts

\* C2: when one scheduled fetcher fails and the other succeeds, the request
\* is answered with success and its items are exactly the items the
\* successful fetcher returned, none of them from the failed one.
C2_FailureContributesNothing ==
    \A r \in Reqs :
        (/\ pc[r] = "done"
         /\ \E f \in Fetchers : tasks[r][f].state = "done" /\ tasks[r][f].logged
         /\ \E f \in Fetchers : tasks[r][f].state = "done" /\ ~tasks[r][f].logged)
        => /\ response[r].status = 200
           /\ \A f \in Fetchers :
                (tasks[r][f].state = "done" /\ ~tasks[r][f].logged)
                => /\ Range(response[r].items) = Range(tasks[r][f].items)
                   /\ Len(response[r].items) = Len(tasks[r][f].items)

\* C3: sources_used of every result is exactly the set of requested tags
\* with an available fetcher, which are the fetchers that were scheduled.
C3_SourcesUsedAreScheduled ==
    \A r \in Reqs :
        Answered(r) =>
            /\ Range(response[r].sources_used)
                 = {s \in request[r].sources : Available(s)}
            /\ Range(response[r].sources_used)
                 = {f \in Fetchers : tasks[r][f].state # "none"}
            /\ Len(response[r].sources_used)
                 = Cardinality(Range(response[r].sources_used))

\* A result of a request that named an unknown tag and the disabled Twitter
\* source, and whose only scheduled fetch failed: sources_used is the web tag.
C3_Witness ==
    \E r \in Reqs :
        /\ Answered(r)
        /\ request[r].sources = {"web", "twitter", "rss"}
        /\ ~twitter_client
        /\ tasks[r].web.logged
        /\ response[r].items = <<>>
        /\ response[r].sources_used = <<"web">>

\* C4: every fetcher returns at most max_results items.
C4_FetcherCapsAtMaxResults ==
    \A r \in Reqs : \A f \in Fetchers :
        tasks[r][f].state = "done" =>
            Len(tasks[r][f].items) <= request[r].max_results

\* C5: a fetch call that fails internally returns an empty sequence.
C5_FailureYieldsEmpty ==
    \A r \in Reqs : \A f \in Fetchers :
        (tasks[r][f].state = "done" /\ tasks[r][f].logged) =>
            tasks[r][f].items = <<>>

\* C6: the merge, the sort, the summarizer call and the response happen only
\* when every fetch scheduled for the request has settled.
C6_JoinNotRace ==
    \A r \in Reqs :
        (\/ pc[r] \in {"summarizing", "done"}
         \/ response[r].status # 0
         \/ all_items[r] # <<>>
         \/ calls[r].summarizer > 0
         \/ calls[r].llm > 0)
        => \A f \in Fetchers : tasks[r][f].state \in {"none", "done"}

\* A result of a request whose two fetches were both scheduled and settled,
\* holding items of both.
C6_Witness ==
    \E r \in Reqs :
        /\ Answered(r)
        /\ \A f \in Fetchers : tasks[r][f].state = "done"
        /\ \E i \in 1..Len(response[r].items) : response[r].items[i].source = "web"
        /\ \E i \in 1..Len(response[r].items) : response[r].items[i].source = "twitter"

\* C7: a request that names only disabled or unknown providers schedules no
\* fetcher and is answered with success: no source used, no item, a total of
\* 0 and no summary.
C7_OnlyDisabledSources ==
    \A r \in Reqs :
        (Handled(r) /\ \A s \in request[r].sources : ~Available(s))
        => /\ pc[r] = "done"
           /\ \A f \in Fetchers : tasks[r][f].state = "none" /\ calls[r][f] = 0
           /\ response[r].status = 200
           /\ response[r].sources_used = <<>>
           /\ response[r].items = <<>>
           /\ response[r].total_items = 0
           /\ response[r].summary = None
           /\ calls[r].llm = 0

\* An answered request for the Twitter source alone while no Twitter client
\* was built, with a summary asked for and a language-model client built.
C7_Witness ==
    \E r \in Reqs :
        /\ pc[r] = "done"
        /\ request[r].sources = {"twitter"}
        /\ request[r].summarize
        /\ ~twitter_client
        /\ openai_client
        /\ Answered(r)

\* C8: total_items of every result is the length of its items.
C8_TotalIsLength ==
    \A r \in Reqs :
        Answered(r) => response[r].total_items = Len(response[r].items)

\* A result that counts three items or more, from both sources.
C8_Witness ==
    \E r \in Reqs :
        /\ Answered(r)
        /\ response[r].total_items >= 3
        /\ tasks[r].web.items # <<>>
        /\ tasks[r].twitter.items # <<>>

\* C9: with summarize false the summarizer is never invoked, no language
\* model call is made and the result has no summary.
C9_NoSummaryUnlessAsked ==
    \A r \in Reqs :
        (Handled(r) /\ ~request[r].summarize)
        => /\ calls[r].summarizer = 0
           /\ calls[r].llm = 0
           /\ pc[r] # "summarizing"
           /\ Answered(r) => response[r].summary = None

\* A result with items, given with summarize false while a language-model
\* client was built.
C9_Witness ==
    \E r \in Reqs :
        /\ Answered(r)
        /\ ~request[r].summarize
        /\ openai_client
        /\ Len(response[r].items) >= 2

\* C10: with summarize true and no merged item, no language-model call is
\* made and the result has no summary.
C10_NoSummaryOfNothing ==
    \A r \in Reqs :
        /\ (pc[r] = "summarizing" => all_items[r] # <<>>)
        /\ (Answered(r) /\ request[r].summarize /\ response[r].items = <<>>)
           => /\ response[r].summary = None
              /\ calls[r].llm = 0

\* A result without items, given with summarize true while a language-model
\* client was built, after the one scheduled fetch failed.
C10_Witness ==
    \E r \in Reqs :
        /\ Answered(r)
        /\ request[r].summarize
        /\ openai_client
        /\ tasks[r].web.state = "done"
        /\ tasks[r].web.logged
        /\ response[r].items = <<>>

\* The items of a sequence with their multiplicities agree with those of
\* another: here items are pairwise distinct, so sets and lengths decide.
SameItems(s, t) == Range(s) = Range(t) /\ Len(s) = Len(t)

NewestFirst(s) == \A i \in 1..(Len(s) - 1) : s[i].ts >= s[i + 1].ts

\* C11: when the language-model call of the summarizer fails, the request is
\* still answered with success: all merged items, newest-first, their count,
\* the sources scheduled, and no summary.
C11_SummaryFailureTolerated ==
    \A r \in Reqs :
        (pc[r] = "done" /\ calls[r].errors > 0)
        => /\ response[r].status = 200
           /\ SameItems(response[r].items, Extend(<<>>, GatherResults(tasks[r])))
           /\ NewestFirst(response[r].items)
           /\ response[r].total_items = Len(Extend(<<>>, GatherResults(tasks[r])))
           /\ response[r].sources_used = sources_used[r]
           /\ Range(response[r].sources_used)
                = {f \in Fetchers : tasks[r][f].state # "none"}
           /\ response[r].summary = None

\* An answered request whose language-model call failed, with items of both
\* sources.
C11_Witness ==
    \E r \in Reqs :
        /\ pc[r] = "done"
        /\ calls[r].errors = 1
        /\ calls[r].llm = 1
        /\ tasks[r].web.items # <<>>
        /\ tasks[r].twitter.items # <<>>
        /\ Len(response[r].items) >= 2

\* C13: a posted body without a query is answered 422 before the handler
\* runs: no fetcher is scheduled or called and no language-model call is made.
C13_MissingQueryRejected ==
    \A r \in Reqs :
        (pc[r] # "idle" /\ "query" \notin body[r].given)
        => /\ pc[r] = "rejected"
           /\ response[r].status = 422
           /\ \A f \in Fetchers : tasks[r][f].state = "none"
           /\ calls[r] = NoCalls
           /\ sources_used[r] = <<>>
           /\ all_items[r] = <<>>
           /\ prompt[r] = <<>>

\* The rejected body of the test: sources and max_results, no query.
C13_Witness ==
    \E r \in Reqs :
        /\ pc[r] = "rejected"
        /\ body[r].given = {"sources", "max_results"}
        /\ body[r].sources = {"web"}
        /\ response[r].status = 422

\* C14: the request object holds exactly the supplied value of every field
\* the body supplied and the default of every field it did not.
C14_SuppliedFieldsKept ==
    \A r \in Reqs :
        Handled(r) =>
            /\ request[r].query = body[r].query
            /\ request[r].sources =
                 IF "sources" \in body[r].given THEN body[r].sources
                 ELSE {"web", "twitter"}
            /\ request[r].max_results =
                 IF "max_results" \in body[r].given THEN body[r].max_results ELSE 10
            /\ request[r].summarize =
                 IF "summarize" \in body[r].given THEN body[r].summarize ELSE TRUE

\* A request built from a body that supplies all four fields, none with its
\* default value.
C14_Witness ==
    \E r \in Reqs :
        /\ Handled(r)
        /\ body[r].given = Fields
        /\ request[r].sources = {"web"}
        /\ request[r].max_results = 1
        /\ request[r].summarize = FALSE

\* C12: the summarizer makes at most one language-model call per
\* invocation, and the prompt of that call embeds the first min(10, n) of the
\* n sorted items it was given, in their order, and nothing else.
C12_PromptIsFirstTen ==
    \A r \in Reqs :
        /\ calls[r].summarizer <= 1
        /\ calls[r].llm <= calls[r].summarizer
        /\ calls[r].llm = 0 => prompt[r] = <<>>
        /\ calls[r].llm = 1 =>
             /\ Len(prompt[r]) =
                  IF Len(all_items[r]) <= 10 THEN Len(all_items[r]) ELSE 10
             /\ \A i \in 1..Len(prompt[r]) : prompt[r][i] = all_items[r][i]

\* A language-model call for a list of more than ten items, reordered by the
\* sort: the prompt holds ten.
C12_Witness ==
    \E r \in Reqs :
        /\ calls[r].llm = 1
        /\ Len(all_items[r]) > 10
        /\ all_items[r] # tasks[r].web.items
        /\ Len(prompt[r]) = 10

\* C19: the sort is stable: two items of a result that have the same timestamp
\* stand in the order in which gather's results were concatenated, web items
\* before Twitter items and each fetcher's items in the order it returned them.
C19_TiesKeepConcatenationOrder ==
    \A r \in Reqs :
        Answered(r) =>
            LET cat == Extend(<<>>, GatherResults(tasks[r]))
                out == response[r].items
            IN \A i \in 1..Len(out) : \A j \in (i + 1)..Len(out) :
                  out[i].ts = out[j].ts =>
                      \E a \in 1..Len(cat) : \E b \in (a + 1)..Len(cat) :
                          cat[a] = out[i] /\ cat[b] = out[j]

\* A result the sort has reordered, in which a web item and a Twitter item have
\* the same timestamp and so do two items of one fetcher.
C19_Witness ==
    \E r \in Reqs :
        /\ Answered(r)
        /\ response[r].items # Extend(<<>>, GatherResults(tasks[r]))
        /\ \E i \in 1..Len(response[r].items) : \E j \in (i + 1)..Len(response[r].items) :
              /\ response[r].items[i].ts = response[r].items[j].ts
              /\ response[r].items[i].source = "web"
              /\ response[r].items[j].source = "twitter"
        /\ \E i \in 1..Len(response[r].items) : \E j \in (i + 1)..Len(response[r].items) :
              /\ response[r].items[i].ts = response[r].items[j].ts
              /\ response[r].items[i].source = response[r].items[j].source

\* C17: when the web fetcher and the Twitter fetcher have both returned for a
\* request, the merge and the sort complete: the handler answers 200 with the
\* items of both fetchers in one newest-first sequence, never 500.
C17_MergeSortCompletes ==
    \A r \in Reqs :
        (pc[r] = "done" /\ tasks[r].web.state = "done" /\ tasks[r].twitter.state = "done") =>
            /\ response[r].status = 200
            /\ SameItems(response[r].items, tasks[r].web.items \o tasks[r].twitter.items)
            /\ NewestFirst(response[r].items)

\* C20: initialize_services enables the two providers independently: whatever
\* the environment and the constructors do, the OpenAI client is set exactly
\* when its key is present and its construction succeeds, and the Twitter
\* client exactly when its token is present and its construction succeeds.
C20_ProvidersIndependent ==
    [][\A token \in BOOLEAN : \A tfail \in BOOLEAN :
       \A key \in BOOLEAN : \A kfail \in BOOLEAN :
          InitializeServices(token, tfail, key, kfail) =>
              /\ openai_client' = (key /\ ~kfail)
              /\ twitter_client' = (token /\ ~tfail)]_vars

\* A fetch of request r is waiting for the network: the web task in its GET or
\* the Twitter task in search_recent_tweets.
FetchInFlight(r) ==
    tasks[r].web.state = "waiting" \/ tasks[r].twitter.state = "blocking"

\* C16: every fetcher call is a suspension point: while a fetch of a request
\* is waiting for the network, every other task that has a step to take, the
\* sibling fetch of that request or a task of another request, can take it.
C16_FetchersYield ==
    \A r \in Reqs :
        FetchInFlight(r) =>
            \A q \in Reqs :
                /\ tasks[q].web.state = "ready" => ENABLED WebStart(q)
                /\ tasks[q].web.state = "waiting" => ENABLED WebReturn(q)
                /\ tasks[q].twitter.state = "ready" => ENABLED TwitterCall(q)
                /\ (pc[q] = "gathering" /\ AllSettled(tasks[q])) => ENABLED Join(q)
                /\ pc[q] = "summarizing" =>
                      ENABLED (\E outcome \in ModelOutcomes : SummaryReturn(q, outcome))

\* C18: every request the handler was called for is eventually answered, with
\* a result or with 500; the answer, once given, is never replaced by another;
\* and no fetcher is called more than once for a request: once the request is
\* answered, each scheduled fetcher has been called exactly once and no other.
C18_AnsweredOnce ==
    /\ \A r \in Reqs :
          Handled(r) ~> (pc[r] = "done" /\ response[r].status \in {200, 500})
    /\ [][\A r \in Reqs : response[r] # NoResponse => response'[r] = response[r]]_response
    /\ [](\A r \in Reqs :
             /\ calls[r].web <= 1
             /\ calls[r].twitter <= 1
             /\ pc[r] = "done" =>
                  /\ calls[r].web = 1 <=> WebScheduled(request[r])
                  /\ calls[r].twitter = 1 <=> TwitterScheduled(request[r], twitter_client))

\* A request answered after two fetches, one of which failed, and a summarizer
\* call: each was made once.
C18_Witness ==
    \E r \in Reqs :
        /\ pc[r] = "done"
        /\ response[r].status = 200
        /\ calls[r].web = 1
        /\ calls[r].twitter = 1
        /\ calls[r].llm = 1
        /\ tasks[r].web.logged \/ tasks[r].twitter.logged

\* What the handler of request r holds: its arguments, its locals and its
\* answer.
Local(r) ==
    <<body[r], request[r], pc[r], sources_used[r], tasks[r], all_items[r],
      response[r], calls[r], prompt[r]>>

\* C15: with several requests in flight, a result is made of the request's own
\* fetches and nothing else: what its tasks return was fetched for its own
\* query, its items are those its own tasks returned, its sources_used and its
\* summary prompt are computed from its own request and items; no step changes
\* what two handlers hold, and after start-up no step changes the global
\* clients.
C15_RequestsIsolated ==
    /\ [](\A r \in Reqs :
             /\ Handled(r) =>
                   \A f \in Fetchers : \A i \in 1..Len(tasks[r][f].items) :
                       /\ tasks[r][f].items[i].query = request[r].query
                       /\ tasks[r][f].items[i].source = f
             /\ Answered(r) =>
                   /\ response[r].query = request[r].query
                   /\ \A i \in 1..Len(response[r].items) :
                         response[r].items[i].query = request[r].query
                   /\ SameItems(response[r].items, Extend(<<>>, GatherResults(tasks[r])))
                   /\ response[r].sources_used = SourcesUsed(request[r], twitter_client)
                   /\ response[r].summary # None =>
                         prompt[r] = PromptItems(response[r].items))
    /\ [][/\ \A q \in Reqs : \A r \in Reqs \ {q} :
                Local(q)' = Local(q) \/ Local(r)' = Local(r)
          /\ started => UNCHANGED <<twitter_client, openai_client, started>>]_vars

\* Request 1 is answered with a summary and items of both sources, one of
\* them stamped after an item that request 2, still waiting for its own
\* summary, has fetched for another query.
C15_Witness ==
    /\ Answered(1)
    /\ response[1].summary # None
    /\ {response[1].items[i].source : i \in 1..Len(response[1].items)} = {"web", "twitter"}
    /\ pc[2] = "summarizing"
    /\ request[2].query # request[1].query
    /\ Len(all_items[2]) >= 2
    /\ response[1].items[1].ts > all_items[2][Len(all_items[2])].ts

====
